---- MODULE Spec2Model ----
(***************************************************************************)
(* Proof-of-relay verification of pocket-core: the pseudorandom challenge  *)
(* index, the verification of a revealed leaf against a stored claim, and  *)
(* the lifecycle driver that broadcasts claims and proofs and sweeps       *)
(* expired claims (x/pocketcore/keeper/proof.go).                          *)
(*                                                                         *)
(* Naming follows the source, where the stored commitment is a MsgProof    *)
(* ("unverified proof") and the reveal is a MsgClaimProof.                 *)
(***************************************************************************)
EXTENDS Integers, Sequences, FiniteSets, TLC

VARIABLES
    sha3,        \* the SHA3-256 function, as a table payload -> first 16 hex digits
    blockHash,   \* height -> hash of the last block id recorded in that block's header
    params,      \* height -> governance parameters in force at that height
    supported,   \* height -> set of supported chains at that height
    height,      \* height of the context the keeper is invoked with
    calls,       \* the last two invocations of GeneratePseudoRandomProof, newest first
    vcall,       \* the invocation of ValidateProof, once made
    evidence,    \* the node's in-memory evidence: session header -> relay proofs
    unverified,  \* KV store: key -> encoded MsgProof (the stored claims)
    verified,    \* KV store: key -> encoded verified ProofOfRelay
    pending,     \* transactions broadcast and not yet delivered
    ranOps,      \* the driver operations already run at this height, in order
    panicked,    \* the node has panicked
    lastOp       \* the driver operation just run, with what it saw and did

chainVars == <<sha3, blockHash, params, supported, height>>
nodeVars == <<evidence, unverified, verified, pending, ranOps, panicked, lastOp>>
vars == <<sha3, blockHash, params, supported, height, calls, vcall,
          evidence, unverified, verified, pending, ranOps, panicked, lastOp>>

None == "none"

\* ------------------------------------------------------------------ bounds

MaxHeight == 5
MaxRelays == 4
TailLen == 2
MaxAppend == 2
MaxOps == 2

Heights == 0..MaxHeight

\* ------------------------------------------------------------- hex strings

\* strconv.ParseInt(_, 16, 64): the base and the bit size
HexBase == 16
BitSize == 64
\* proofsHash is the first 16 characters of the hex digest
HexLen == 16

HexDigits == 0..(HexBase - 1)

RECURSIVE StripZeros(_)
StripZeros(d) ==
    IF d = <<>> THEN <<>>
    ELSE IF d[1] = 0 THEN StripZeros(Tail(d)) ELSE d

RECURSIVE HexValue(_)
HexValue(d) ==
    IF d = <<>> THEN 0
    ELSE HexValue(SubSeq(d, 1, Len(d) - 1)) * HexBase + d[Len(d)]

\* strconv.ParseInt(s, 16, 64) on a string of hex digits: the value is kept as
\* its significant digits (it may reach 2^64 - 1); a value above 2^63 - 1 does
\* not fit int64 and is a range error, the empty string a syntax error.
ParseInt(s) ==
    LET sig == StripZeros(s)
        signBit == (BitSize \div 4)
    IN  IF s = <<>> THEN [err |-> "ErrSyntax", sig |-> <<>>]
        ELSE IF Len(sig) > signBit \/ (Len(sig) = signBit /\ sig[1] >= HexBase \div 2)
             THEN [err |-> "ErrRange", sig |-> sig]
        ELSE [err |-> None, sig |-> sig]

\* the significant hex digits of a non-negative int64
RECURSIVE ToHex(_)
ToHex(n) ==
    IF n <= 0 THEN <<>>
    ELSE ToHex(n \div HexBase) \o <<n % HexBase>>

\* a < b for two numbers given by their significant digits
RECURSIVE SigLess(_, _)
SigLess(a, b) ==
    IF Len(a) # Len(b) THEN Len(a) < Len(b)
    ELSE IF a = <<>> THEN FALSE
    ELSE IF a[1] # b[1] THEN a[1] < b[1]
    ELSE SigLess(Tail(a), Tail(b))

\* totalRelays > res (line 62), res >= 0 given by its significant digits
GreaterThan(totalRelays, sig) ==
    /\ totalRelays > 0
    /\ SigLess(sig, ToHex(totalRelays))

\* lines 55-67: the walk over the suffixes proofsHash[i:], i = 0..15
RECURSIVE ChallengeLoop(_, _, _)
ChallengeLoop(proofsHash, totalRelays, i) ==
    IF i >= HexLen THEN [panic |-> FALSE, val |-> 0]
    ELSE LET res == ParseInt(SubSeq(proofsHash, i + 1, Len(proofsHash)))
         IN  IF res.err # None THEN [panic |-> TRUE, val |-> 0]
             ELSE IF GreaterThan(totalRelays, res.sig)
                  THEN [panic |-> FALSE, val |-> HexValue(res.sig)]
             ELSE ChallengeLoop(proofsHash, totalRelays, i + 1)

ChallengeIndex(proofsHash, totalRelays) == ChallengeLoop(proofsHash, totalRelays, 0)

\* ------------------------------------------------------ chain and contexts

Chains == {"c1", "c2"}
Apps == {"app1"}

\* a context pins the height whose state and block header it reads
Context(h) == [height |-> h]

\* ctx.WithBlockHeight(h)
WithBlockHeight(ctx, h) == Context(h)

\* k.SessionFrequency(ctx), k.ProofWaitingPeriod(ctx), k.UnverifiedProofExpiration(ctx)
SessionFrequency(ctx) == params[ctx.height].sessionFrequency
ProofWaitingPeriod(ctx) == params[ctx.height].proofWaitingPeriod
UnverifiedProofExpiration(ctx) == params[ctx.height].unverifiedProofExpiration
ClaimExpiration(ctx) == params[ctx.height].claimExpiration

\* k.IsPocketSupportedBlockchain(ctx, chain)
IsPocketSupportedBlockchain(ctx, chain) == chain \in supported[ctx.height]

\* the hash of a block that does not exist (yet): nil, hex-encoded as ""
NoHash == <<>>

\* hex.EncodeToString(ctx.BlockHeader().GetLastBlockId().Hash)
LastBlockIdHash(ctx) ==
    IF ctx.height \in DOMAIN blockHash THEN blockHash[ctx.height] ELSE NoHash

\* header.HashString(): a collision-free hash of the three header fields
HeaderHashString(header) == <<"H", header.app, header.chain, header.sbh>>

\* --------------------------------------------------- encoding/json.Marshal

UpperCase == {"A", "B", "C", "D", "E", "F", "G", "H", "I", "J", "K", "L", "M",
              "N", "O", "P", "Q", "R", "S", "T", "U", "V", "W", "X", "Y", "Z"}

\* a struct field is exported when its name starts with an upper-case letter
IsExported(name) == name[1] \in UpperCase

\* json.Marshal of a struct value: the exported fields, in order; fields that
\* are not exported are left out
RECURSIVE Marshal(_)
Marshal(fields) ==
    IF fields = <<>> THEN <<>>
    ELSE LET f == Head(fields)
         IN  (IF IsExported(f.name) THEN <<f>> ELSE <<>>) \o Marshal(Tail(fields))

\* the encoding of a struct none of whose fields is marshalled: {}
EmptyObject == <<>>

\* type pseudorandomGenerator struct { blockHash string; header string }
pseudorandomGenerator(bh, hdr) ==
    << [name |-> <<"b", "l", "o", "c", "k", "H", "a", "s", "h">>, value |-> bh],
       [name |-> <<"h", "e", "a", "d", "e", "r">>, value |-> hdr] >>

\* ------------------------------------------- GeneratePseudoRandomProof

\* line 43: the context X sessions after the session began
ProofContext(ctx, header) ==
    WithBlockHeight(ctx, header.sbh + ProofWaitingPeriod(ctx) * SessionFrequency(ctx))

\* lines 45-48: the bytes that are hashed
GeneratorPayload(ctx, header) ==
    Marshal(pseudorandomGenerator(LastBlockIdHash(ProofContext(ctx, header)),
                                  HeaderHashString(header)))

\* line 53: hex.EncodeToString(pc.SHA3FromBytes(r))[:16]
ProofsHash(r) == sha3[r]

\* as GeneratePseudoRandomProof, with the index shifted by the invoking height
GeneratePseudoRandomProofAtHeight(ctx, totalRelays, header) ==
    LET r == ChallengeIndex(ProofsHash(GeneratorPayload(ctx, header)), totalRelays)
    IN  IF r.panic \/ totalRelays <= 0 THEN r
        ELSE [panic |-> FALSE, val |-> (r.val + ctx.height) % totalRelays]

GeneratePseudoRandomProof(ctx, totalRelays, header) ==
    ChallengeIndex(ProofsHash(GeneratorPayload(ctx, header)), totalRelays)

\* ------------------------------------------------------------ Merkle tree

\* leaves and internal nodes are hashed under different domain tags; the hash
\* is collision-free
LeafNodeHash(h) == <<0, h>>
InnerNodeHash(l, r) == <<1, l, r>>

\* one level up: pairs are combined, an odd last node is paired with itself
NextLevel(nodes) ==
    [ k \in 1..((Len(nodes) + 1) \div 2) |->
        InnerNodeHash(nodes[2 * k - 1],
                      IF 2 * k <= Len(nodes) THEN nodes[2 * k] ELSE nodes[2 * k - 1]) ]

RECURSIVE RootOf(_)
RootOf(nodes) == IF Len(nodes) = 1 THEN nodes[1] ELSE RootOf(NextLevel(nodes))

\* the sibling path of position i (from 0) up to the root
RECURSIVE BranchOf(_, _)
BranchOf(nodes, i) ==
    IF Len(nodes) = 1 THEN <<>>
    ELSE LET sib == IF i % 2 = 0
                    THEN [hash |-> IF i + 2 <= Len(nodes) THEN nodes[i + 2] ELSE nodes[i + 1],
                          dir |-> "R"]
                    ELSE [hash |-> nodes[i], dir |-> "L"]
         IN  <<sib>> \o BranchOf(NextLevel(nodes), i \div 2)

\* Tree.GetMerkleRoot over the leaf hashes; an empty tree has no root
GetMerkleRoot(hashes) ==
    IF hashes = <<>> THEN [err |-> TRUE, root |-> <<>>]
    ELSE [err |-> FALSE, root |-> RootOf([k \in 1..Len(hashes) |-> LeafNodeHash(hashes[k])])]

\* Tree.GetMerkleProof(i) over the leaf hashes
GetMerkleProof(hashes, i) ==
    IF i < 0 \/ i >= Len(hashes) THEN [err |-> TRUE, branch |-> <<>>]
    ELSE [err |-> FALSE,
          branch |-> BranchOf([k \in 1..Len(hashes) |-> LeafNodeHash(hashes[k])], i)]

RECURSIVE Fold(_, _)
Fold(acc, branch) ==
    IF branch = <<>> THEN acc
    ELSE Fold(IF Head(branch).dir = "L" THEN InnerNodeHash(Head(branch).hash, acc)
              ELSE InnerNodeHash(acc, Head(branch).hash),
              Tail(branch))

\* Tree.VerifyProof(proof, root, value)
VerifyProof(merkleProof, root, value) == Fold(LeafNodeHash(value), merkleProof) = root

\* ------------------------------------------------------------ relay proofs

\* a relay proof (leaf): its index in the session's evidence, its content, and
\* whether its token and its client signature are valid
Leaf(i, data, tokenOK, sigOK) ==
    [index |-> i, data |-> data, tokenOK |-> tokenOK, sigOK |-> sigOK]

\* LeafNode.Hash(): over the leaf without its signature
LeafHash(leaf) == <<"P", leaf.index, leaf.data, leaf.tokenOK>>

\* the content of the leaves of the session's Merkle tree
HashesOf(leaves) == [k \in 1..Len(leaves) |-> LeafHash(leaves[k])]

\* LeafNode.Token.Validate()
TokenValidate(leaf) == IF leaf.tokenOK THEN None ELSE "InvalidToken"

\* pc.SignatureVerification(clientPublicKey, leaf.HashString(), leaf.Signature)
SignatureVerification(leaf) == IF leaf.sigOK THEN None ELSE "InvalidSignature"

\* ----------------------------------------------------------- ValidateProof

\* as ValidateProof, without the Merkle check
ValidateProofNoMerkle(ctx, proof, claim) ==
    LET reqProof == GeneratePseudoRandomProof(ctx, proof.totalRelays, proof.header)
    IN  IF reqProof.panic THEN [panic |-> TRUE, err |-> None]
        ELSE IF reqProof.val # claim.leafNode.index
             THEN [panic |-> FALSE, err |-> "InvalidProofs"]
        ELSE IF TokenValidate(claim.leafNode) # None
             THEN [panic |-> FALSE, err |-> TokenValidate(claim.leafNode)]
        ELSE [panic |-> FALSE, err |-> SignatureVerification(claim.leafNode)]

\* as ValidateProof, with the Merkle check made before the index check
ValidateProofMerkleFirst(ctx, proof, claim) ==
    LET reqProof == GeneratePseudoRandomProof(ctx, proof.totalRelays, proof.header)
    IN  IF reqProof.panic THEN [panic |-> TRUE, err |-> None]
        ELSE IF ~VerifyProof(claim.merkleProof, proof.root, LeafHash(claim.leafNode))
             THEN [panic |-> FALSE, err |-> "InvalidMerkleVerify"]
        ELSE IF reqProof.val # claim.leafNode.index
             THEN [panic |-> FALSE, err |-> "InvalidProofs"]
        ELSE IF TokenValidate(claim.leafNode) # None
             THEN [panic |-> FALSE, err |-> TokenValidate(claim.leafNode)]
        ELSE [panic |-> FALSE, err |-> SignatureVerification(claim.leafNode)]

\* proof is the stored commitment (header, totalRelays, root), claim the reveal
\* (leafNode, merkleProof); err = None is acceptance
ValidateProof(ctx, proof, claim) ==
    LET reqProof == GeneratePseudoRandomProof(ctx, proof.totalRelays, proof.header)
    IN  IF reqProof.panic THEN [panic |-> TRUE, err |-> None]
        ELSE IF reqProof.val # claim.leafNode.index
             THEN [panic |-> FALSE, err |-> "InvalidProofs"]
        ELSE IF ~VerifyProof(claim.merkleProof, proof.root, LeafHash(claim.leafNode))
             THEN [panic |-> FALSE, err |-> "InvalidMerkleVerify"]
        ELSE IF TokenValidate(claim.leafNode) # None
             THEN [panic |-> FALSE, err |-> TokenValidate(claim.leafNode)]
        ELSE IF SignatureVerification(claim.leafNode) # None
             THEN [panic |-> FALSE, err |-> SignatureVerification(claim.leafNode)]
        ELSE [panic |-> FALSE, err |-> None]

\* ----------------------------------------------------------- maps, codec

EmptyMap == [k \in {} |-> <<>>]
PutKeepsFirst(m, k, v) == [x \in DOMAIN m \cup {k} |-> IF x \in DOMAIN m THEN m[x] ELSE v]
Put(m, k, v) == [x \in DOMAIN m \cup {k} |-> IF x = k THEN v ELSE m[x]]
Remove(m, k) == [x \in DOMAIN m \ {k} |-> m[x]]

\* integer division as Go computes it: truncated toward zero
GoDiv(a, b) == IF a >= 0 THEN a \div b ELSE -((-a) \div b)

\* cdc.MustMarshalBinaryBare(v)
MustMarshalBinaryBare(v) == <<"amino", v>>

\* cdc.MustUnmarshalBinaryBare(bz, target): the decoded value is written through
\* the target pointer. A target passed by value cannot be written: the codec
\* rejects it and the Must variant panics.
MustUnmarshalBinaryBare(bz, target, isPointer) ==
    IF isPointer THEN [panic |-> FALSE, val |-> bz[2]]
    ELSE [panic |-> TRUE, val |-> target]

\* ------------------------------------------------------------ the KV store

\* the node's own address: sdk.ValAddress(n.PrivValidator().GetPubKey().Address())
Self == "n1"

\* the sessions the node serves
Sessions == { [app |-> a, chain |-> c, sbh |-> 1] : a \in Apps, c \in Chains }

\* pc.KeyForUnverifiedProof / pc.KeyForProof: the address, then the header
KeyFor(address, header) == [address |-> address, header |-> header]

\* the position of a key in the byte order of the store's keys
Position(seq, x) == CHOOSE i \in 1..Len(seq) : seq[i] = x
Addresses == <<"n1", "n2">>
KeyRank(k) ==
    (Position(Addresses, k.address) * 10 + Position(<<"c1", "c2">>, k.header.chain)) * 10
        + k.header.sbh

\* sdk.KVStorePrefixIterator: the keys of the store under a prefix, in key order
RECURSIVE InKeyOrder(_)
InKeyOrder(keys) ==
    IF keys = {} THEN <<>>
    ELSE LET k == CHOOSE x \in keys : \A y \in keys : KeyRank(x) <= KeyRank(y)
         IN  <<k>> \o InKeyOrder(keys \ {k})

\* the zero value pc.MsgProof{}
ZeroMsgProof ==
    [fromAddress |-> "", header |-> [app |-> "", chain |-> "", sbh |-> 0],
     totalRelays |-> 0, root |-> <<>>]

\* GetProof: the verified proof of (address, header), decoded through &proof
GetProof(address, header) ==
    IF KeyFor(address, header) \notin DOMAIN verified THEN [found |-> FALSE, proof |-> <<>>]
    ELSE [found |-> TRUE,
          proof |-> MustUnmarshalBinaryBare(verified[KeyFor(address, header)], <<>>, TRUE).val]

\* GetAllProofs: the verified proofs under the prefix of the address, each
\* decoded into a variable of its own
GetAllProofs(address) ==
    LET keys == InKeyOrder({k \in DOMAIN verified : k.address = address})
    IN  [i \in 1..Len(keys) |-> MustUnmarshalBinaryBare(verified[keys[i]], <<>>, TRUE).val]

\* SetProof, on a value of the verified store
SetProof(store, address, p) ==
    Put(store, KeyFor(address, p.header), MustMarshalBinaryBare(p))

\* GetUnverfiedProof: the stored claim of (address, header), decoded through &msg
GetUnverfiedProof(address, header) ==
    IF KeyFor(address, header) \notin DOMAIN unverified THEN [found |-> FALSE, msg |-> ZeroMsgProof]
    ELSE [found |-> TRUE,
          msg |-> MustUnmarshalBinaryBare(unverified[KeyFor(address, header)],
                                          ZeroMsgProof, TRUE).val]

\* SetUnverifiedProof, on a value of the claim store
SetUnverifiedProof(store, msg) ==
    Put(store, KeyFor(msg.fromAddress, msg.header), MustMarshalBinaryBare(msg))

\* ProofIsReadyToClaim
ProofIsReadyToClaim(ctx, sessionBlockHeight) ==
    LET waitingPeriodInBlocks == ProofWaitingPeriod(ctx) * SessionFrequency(ctx)
    IN  ctx.height >= waitingPeriodInBlocks + sessionBlockHeight

\* every stored claim of the address, mature or not, decoded through a pointer
GetAllUnverifiedProofs(ctx, address) ==
    LET keys == InKeyOrder({k \in DOMAIN unverified : k.address = address})
    IN  [panic |-> FALSE,
         proofs |-> [i \in 1..Len(keys) |->
                        MustUnmarshalBinaryBare(unverified[keys[i]], ZeroMsgProof, TRUE).val]]

\* GetMatureUnverifiedProofs, lines 214-219: msg is handed to the codec by value
RECURSIVE MatureLoop(_, _, _, _)
MatureLoop(ctx, keys, msg, matureProofs) ==
    IF keys = <<>> THEN [panic |-> FALSE, proofs |-> matureProofs]
    ELSE LET d == MustUnmarshalBinaryBare(unverified[Head(keys)], msg, FALSE)
         IN  IF d.panic THEN [panic |-> TRUE, proofs |-> matureProofs]
             ELSE MatureLoop(ctx, Tail(keys), d.val,
                             IF ProofIsReadyToClaim(ctx, d.val.header.sbh)
                             THEN Append(matureProofs, d.val) ELSE matureProofs)

GetMatureUnverifiedProofs(ctx, address) ==
    MatureLoop(ctx, InKeyOrder({k \in DOMAIN unverified : k.address = address}),
               ZeroMsgProof, <<>>)

\* DeleteExpiredUnverifiedProofs, lines 229-236, over every node's claims; msg
\* is handed to the codec by value
RECURSIVE SweepLoop(_, _, _, _)
SweepLoop(ctx, keys, msg, store) ==
    IF keys = <<>> THEN [panic |-> FALSE, store |-> store]
    ELSE LET d == MustUnmarshalBinaryBare(unverified[Head(keys)], msg, FALSE)
             sessionContext == WithBlockHeight(ctx, d.val.header.sbh)
         IN  IF d.panic THEN [panic |-> TRUE, store |-> store]
             ELSE SweepLoop(ctx, Tail(keys), d.val,
                            IF GoDiv(ctx.height - d.val.header.sbh, SessionFrequency(sessionContext))
                                  >= UnverifiedProofExpiration(sessionContext)
                            THEN Remove(store, Head(keys)) ELSE store)

DeleteExpiredUnverifiedProofs(ctx) ==
    SweepLoop(ctx, InKeyOrder(DOMAIN unverified), ZeroMsgProof, unverified)

\* ------------------------------------------------------ lifecycle driver

\* the claim transaction built by proofTx, and the proof transaction by claimTx
ClaimTx(header, totalRelays, root) ==
    [kind |-> "claim",
     msg |-> [fromAddress |-> Self, header |-> header, totalRelays |-> totalRelays, root |-> root]]
ProofTx(header, leafNode, merkleProof) ==
    [kind |-> "proof", fromAddress |-> Self, header |-> header,
     leafNode |-> leafNode, merkleProof |-> merkleProof]

\* SendUnverifiedProofs without the lookup of the stored claim
RECURSIVE SendLoopNoLookup(_, _, _, _, _)
SendLoopNoLookup(ctx, order, txErrors, ev, sent) ==
    IF order = <<>> THEN [panic |-> FALSE, evidence |-> ev, broadcast |-> sent]
    ELSE LET header == Head(order)
             proofs == evidence[header]
             totalRelays == Len(proofs)
         IN  IF /\ ~IsPocketSupportedBlockchain(WithBlockHeight(ctx, header.sbh), header.chain)
                /\ totalRelays > 0
             THEN SendLoopNoLookup(ctx, Tail(order), txErrors, Remove(ev, header), sent)
             ELSE LET root == GetMerkleRoot(HashesOf(proofs))
                  IN  IF root.err \/ header \in txErrors
                      THEN [panic |-> TRUE, evidence |-> ev, broadcast |-> sent]
                      ELSE SendLoopNoLookup(ctx, Tail(order), txErrors, ev,
                                            sent \cup {ClaimTx(header, totalRelays, root.root)})

\* SendUnverifiedProofs, lines 81-102, over the sessions in memory in the order
\* the map yields them; txErrors are the headers whose broadcast returns an error
RECURSIVE SendLoop(_, _, _, _, _)
SendLoop(ctx, order, txErrors, ev, sent) ==
    IF order = <<>> THEN [panic |-> FALSE, evidence |-> ev, broadcast |-> sent]
    ELSE LET header == Head(order)
             proofs == evidence[header]
             totalRelays == Len(proofs)
         IN  IF /\ ~IsPocketSupportedBlockchain(WithBlockHeight(ctx, header.sbh), header.chain)
                /\ totalRelays > 0
             THEN SendLoop(ctx, Tail(order), txErrors, Remove(ev, header), sent)
             ELSE IF GetUnverfiedProof(Self, header).found
                  THEN SendLoop(ctx, Tail(order), txErrors, ev, sent)
             ELSE LET root == GetMerkleRoot(HashesOf(proofs))
                  IN  IF root.err \/ header \in txErrors
                      THEN [panic |-> TRUE, evidence |-> ev, broadcast |-> sent]
                      ELSE SendLoop(ctx, Tail(order), txErrors, ev,
                                    sent \cup {ClaimTx(header, totalRelays, root.root)})

SendUnverifiedProofs(ctx, order, txErrors) == SendLoop(ctx, order, txErrors, evidence, {})

\* ClaimProofs, lines 112-143, over the mature claims of the node
RECURSIVE ClaimLoop(_, _, _, _, _)
ClaimLoop(ctx, proofs, txErrors, ev, sent) ==
    IF proofs = <<>> THEN [panic |-> FALSE, evidence |-> ev, broadcast |-> sent]
    ELSE LET proof == Head(proofs)
         IN  IF GetProof(Self, proof.header).found
             THEN ClaimLoop(ctx, Tail(proofs), txErrors, Remove(ev, proof.header), sent)
             ELSE LET leaves == IF proof.header \in DOMAIN ev THEN ev[proof.header] ELSE <<>>
                      reqProof == GeneratePseudoRandomProof(ctx, proof.totalRelays, proof.header)
                      branch == GetMerkleProof(HashesOf(leaves), reqProof.val)
                  IN  IF reqProof.panic \/ branch.err \/ proof.header \in txErrors
                      THEN [panic |-> TRUE, evidence |-> ev, broadcast |-> sent]
                      ELSE ClaimLoop(ctx, Tail(proofs), txErrors, ev,
                                     sent \cup {ProofTx(proof.header, leaves[reqProof.val + 1],
                                                        branch.branch)})

ClaimProofs(ctx, txErrors) ==
    LET mature == GetMatureUnverifiedProofs(ctx, Self)
    IN  IF mature.panic THEN [panic |-> TRUE, evidence |-> evidence, broadcast |-> {}]
        ELSE ClaimLoop(ctx, mature.proofs, txErrors, evidence, {})

\* --------------------------------------------- transaction handlers (4.4, 4.5)

\* a claim message is persisted unless a check of section 4.4 rejects it
HandleClaimMsg(ctx, msg) ==
    IF \/ ctx.height < msg.header.sbh + SessionFrequency(ctx)
       \/ ctx.height >= msg.header.sbh
                          + (ProofWaitingPeriod(ctx) + ClaimExpiration(ctx)) * SessionFrequency(ctx)
       \/ msg.totalRelays <= 0
       \/ ~IsPocketSupportedBlockchain(ctx, msg.header.chain)
       \/ GetUnverfiedProof(msg.fromAddress, msg.header).found
    THEN unverified
    ELSE SetUnverifiedProof(unverified, msg)

\* the stores as a call of ValidateProof leaves them: lines 18-38 and the
\* functions they call hold no Set and no Delete
ValidateProofDeletesClaim(ctx, proof, claim) ==
    [unverified |-> Remove(unverified, KeyFor(Self, proof.header)),
     verified |-> verified, evidence |-> evidence]
ValidateProofStores(ctx, proof, claim) ==
    [unverified |-> unverified, verified |-> verified, evidence |-> evidence]

\* a proof message that ValidateProof accepts against its stored claim writes
\* the verified record and deletes the claim; a handler that panics is rejected
HandleProofMsg(ctx, tx) ==
    LET stored == GetUnverfiedProof(tx.fromAddress, tx.header)
        claim == [leafNode |-> tx.leafNode, merkleProof |-> tx.merkleProof]
        res == ValidateProof(ctx, stored.msg, claim)
        after == ValidateProofStores(ctx, stored.msg, claim)
    IN  IF ~stored.found
        THEN [found |-> FALSE, accepted |-> FALSE, out |-> [panic |-> FALSE, err |-> None],
              unverified |-> unverified, verified |-> verified, evidence |-> evidence]
        ELSE IF res.panic \/ res.err # None
        THEN [found |-> TRUE, accepted |-> FALSE, out |-> res,
              unverified |-> after.unverified, verified |-> after.verified,
              evidence |-> after.evidence]
        ELSE [found |-> TRUE, accepted |-> TRUE, out |-> res,
              unverified |-> Remove(after.unverified, KeyFor(tx.fromAddress, tx.header)),
              verified |-> SetProof(after.verified, tx.fromAddress,
                                    [header |-> tx.header, totalRelays |-> stored.msg.totalRelays]),
              evidence |-> after.evidence]

\* ----------------------------------------------------------------- digests

\* hex(SHA3-256("{}"))[:16] = 840eb7aa2a9935de
EmptyObjectDigest == <<8, 4, 0, 14, 11, 7, 10, 10, 2, 10, 9, 9, 3, 5, 13, 14>>

Repeat(d, k) == [i \in 1..k |-> d]

\* 16-digit prefixes: a leading digit, a run of one digit, TailLen free digits
DigestFamily(tops, fills, tails) ==
    { <<top>> \o Repeat(fill, HexLen - 1 - TailLen) \o tail :
        top \in tops, fill \in fills, tail \in [1..TailLen -> tails] }

AllDigests == DigestFamily({0, 7, 8, 15}, {0, 15}, {0, 1, 2, 3, 15}) \cup {EmptyObjectDigest}
FewDigests == DigestFamily({0}, {0, 15}, {2}) \cup {EmptyObjectDigest}

\* ---------------------------------------------------------------- sessions

Headers == { [app |-> a, chain |-> c, sbh |-> s] : a \in Apps, c \in {"c1"}, s \in {1, 2} }

\* every payload GeneratePseudoRandomProof can hash
Payloads ==
    { Marshal(pseudorandomGenerator(bh, HeaderHashString(hdr))) :
        bh \in {<<"B", h>> : h \in Heights} \cup {NoHash}, hdr \in Headers }

\* governance parameter sets
ParamSets ==
    { [sessionFrequency |-> f, proofWaitingPeriod |-> w,
       claimExpiration |-> 2, unverifiedProofExpiration |-> 2 * 2] :
        f \in {1, 2}, w \in {1, 2} }

\* ------------------------------------- invocations of the challenge index

\* one invocation of GeneratePseudoRandomProof, with what it read and returned
Invocation(ctx, totalRelays, header) ==
    LET r == GeneratorPayload(ctx, header)
    IN  [ height      |-> ctx.height,
          totalRelays |-> totalRelays,
          header      |-> header,
          blockHash   |-> LastBlockIdHash(ProofContext(ctx, header)),
          payload     |-> r,
          proofsHash  |-> ProofsHash(r),
          out         |-> GeneratePseudoRandomProof(ctx, totalRelays, header) ]

\* GeneratePseudoRandomProof is invoked, by any node, with a context of any height
Invoke ==
    /\ Len(calls) < 2
    /\ \E h \in Heights, n \in 0..MaxRelays, hdr \in Headers :
          calls' = <<Invocation(Context(h), n, hdr)>> \o calls
    /\ UNCHANGED <<chainVars, vcall, nodeVars>>

InvokeOnce ==
    /\ calls = <<>>
    /\ Invoke

\* a node that has served no relay, and empty stores
InitNode ==
    /\ evidence = EmptyMap
    /\ unverified = EmptyMap
    /\ verified = EmptyMap
    /\ pending = {}
    /\ ranOps = <<>>
    /\ panicked = FALSE
    /\ lastOp = <<>>

\* a chain whose blocks all exist, with the parameters changed by governance at
\* some height g
InitChain ==
    /\ blockHash = [h \in Heights |-> <<"B", h>>]
    /\ \E g \in {0, MaxHeight \div 2 + 1}, p1 \in ParamSets, p2 \in ParamSets :
          /\ p1.sessionFrequency = p2.sessionFrequency
          /\ params = [h \in Heights |-> IF h < g THEN p1 ELSE p2]
    /\ supported = [h \in Heights |-> Chains]
    /\ height = MaxHeight
    /\ calls = <<>>
    /\ vcall = <<>>
    /\ InitNode

InitChallenge ==
    /\ sha3 \in [Payloads -> FewDigests]
    /\ InitChain

SpecChallenge == InitChallenge /\ [][Invoke]_vars

InitIndex ==
    /\ sha3 \in [Payloads -> AllDigests]
    /\ InitChain
    /\ params[0] = params[MaxHeight]

SpecIndex == InitIndex /\ [][InvokeOnce]_vars

\* ---------------------------------------------- invocations of ValidateProof

IndexDigests == DigestFamily({0}, {15}, {1, 3}) \cup {EmptyObjectDigest}

\* the evidence of a session with n relays, as a node holds it; tok: whether the
\* relays carry a valid token
Evidence(n, tok) == [k \in 1..n |-> Leaf(k - 1, "relay", tok, TRUE)]

\* the leaves a prover may reveal: any index, genuine or altered content, a valid
\* or invalid token, a valid or invalid client signature
RevealLeaves ==
    { Leaf(i, d, tok, sig) :
        i \in 0..(MaxRelays - 1), d \in {"relay", "forged"}, tok \in BOOLEAN, sig \in BOOLEAN }

\* the branches a prover may send: the branch of any position of its tree, or
\* such a branch cut short
RevealBranches(n, tok) ==
    LET bs == { GetMerkleProof(HashesOf(Evidence(n, tok)), j).branch : j \in 0..(n - 1) }
    IN  bs \cup { SubSeq(b, 1, Len(b) - 1) : b \in { x \in bs : x # <<>> } }

\* ValidateProof is invoked on a stored commitment and a reveal
Validate ==
    /\ vcall = <<>>
    /\ \E n \in 1..MaxRelays, tok \in BOOLEAN, total \in 1..MaxRelays, hdr \in Headers,
          leaf \in RevealLeaves :
         \E branch \in RevealBranches(n, tok) :
            LET proof == [header |-> hdr, totalRelays |-> total,
                          root |-> GetMerkleRoot(HashesOf(Evidence(n, tok))).root]
                claim == [leafNode |-> leaf, merkleProof |-> branch]
            IN  vcall' = <<[proof |-> proof, claim |-> claim,
                            out |-> ValidateProof(Context(height), proof, claim)]>>
    /\ UNCHANGED <<chainVars, calls, nodeVars>>

InitValidate ==
    /\ sha3 \in [Payloads -> IndexDigests]
    /\ InitChain
    /\ params[0] = params[MaxHeight]
    /\ params[0].sessionFrequency = 1
    /\ params[0].proofWaitingPeriod = 1

SpecValidate == InitValidate /\ [][Validate]_vars

\* ------------------------------------------------- the node on the chain

\* the sessions whose transaction the broadcast callback refuses: none, or one
TxErrors(headers) == {{}} \cup {{header} : header \in headers}

\* the orders in which a Go map may yield the keys in S
Orders(S) ==
    { s \in [1..Cardinality(S) -> S] : \A i, j \in 1..Cardinality(S) : s[i] = s[j] => i = j }

\* what a driver operation saw and did
OpRecord(op, txErrors, panic, evidenceAfter, broadcast, unverifiedAfter) ==
    [ op               |-> op,
      txErrors         |-> txErrors,
      height           |-> height,
      rerun            |-> lastOp # <<>> /\ op \in {ranOps[i] : i \in 1..Len(ranOps)},
      panic            |-> panic,
      supportedNow     |-> supported[height],
      evidenceBefore   |-> evidence,
      evidenceAfter    |-> evidenceAfter,
      broadcast        |-> broadcast,
      unverifiedBefore |-> unverified,
      unverifiedAfter  |-> unverifiedAfter,
      verifiedBefore   |-> verified ]

\* the relay front-end appends a relay proof to the evidence of a session in
\* progress
AppendRelay ==
    /\ ~panicked
    /\ \E header \in Sessions :
         LET proofs == IF header \in DOMAIN evidence THEN evidence[header] ELSE <<>>
         IN  /\ height >= header.sbh
             /\ height < header.sbh + SessionFrequency(Context(header.sbh))
             /\ Len(proofs) < MaxAppend
             /\ evidence' = Put(evidence, header,
                                Append(proofs, Leaf(Len(proofs), "relay", TRUE, TRUE)))
    /\ lastOp' = <<>>
    /\ UNCHANGED <<chainVars, calls, vcall, unverified, verified, pending, ranOps, panicked>>

\* the node's operator submits a proof of one of its stored claims by hand
SubmitProof ==
    /\ ~panicked
    /\ \E header \in DOMAIN evidence, i \in 0..(MaxAppend - 1) :
         LET branch == GetMerkleProof(HashesOf(evidence[header]), i)
         IN  /\ GetUnverfiedProof(Self, header).found
             /\ ~branch.err
             /\ \A tx \in pending : tx.kind # "proof"
             /\ pending' = pending \cup {ProofTx(header, evidence[header][i + 1], branch.branch)}
    /\ lastOp' = <<>>
    /\ UNCHANGED <<chainVars, calls, vcall, evidence, unverified, verified, ranOps, panicked>>

\* a claim transaction is delivered in the block being applied
DeliverClaim ==
    /\ ~panicked
    /\ ranOps = <<>>
    /\ \E tx \in pending :
         /\ tx.kind = "claim"
         /\ unverified' = HandleClaimMsg(Context(height), tx.msg)
         /\ pending' = pending \ {tx}
    /\ lastOp' = <<>>
    /\ UNCHANGED <<chainVars, calls, vcall, evidence, verified, ranOps, panicked>>

\* a proof transaction is delivered in the block being applied
DeliverProof ==
    /\ ~panicked
    /\ ranOps = <<>>
    /\ \E tx \in pending :
         LET r == HandleProofMsg(Context(height), tx)
         IN  /\ tx.kind = "proof"
             /\ unverified' = r.unverified
             /\ verified' = r.verified
             /\ evidence' = r.evidence
             /\ pending' = pending \ {tx}
             /\ lastOp' = <<[ op               |-> "proof",
                              validated        |-> r.found,
                              out              |-> r.out,
                              evidenceBefore   |-> evidence,
                              evidenceAfter    |-> r.evidence,
                              unverifiedBefore |-> unverified,
                              unverifiedAfter  |-> r.unverified,
                              verifiedBefore   |-> verified,
                              verifiedAfter    |-> r.verified ]>>
    /\ UNCHANGED <<chainVars, calls, vcall, ranOps, panicked>>

RunSendUnverifiedProofs ==
    /\ ~panicked
    /\ Len(ranOps) < MaxOps
    /\ \E order \in Orders(DOMAIN evidence), txErrors \in TxErrors(DOMAIN evidence) :
         LET r == SendUnverifiedProofs(Context(height), order, txErrors)
         IN  /\ evidence' = r.evidence
             /\ pending' = pending \cup r.broadcast
             /\ panicked' = r.panic
             /\ lastOp' = <<OpRecord("send", txErrors, r.panic, r.evidence,
                                     r.broadcast, unverified)>>
    /\ ranOps' = Append(ranOps, "send")
    /\ UNCHANGED <<chainVars, calls, vcall, unverified, verified>>

RunClaimProofs ==
    /\ ~panicked
    /\ Len(ranOps) < MaxOps
    /\ \E txErrors \in TxErrors({k.header : k \in DOMAIN unverified}) :
         LET r == ClaimProofs(Context(height), txErrors)
         IN  /\ evidence' = r.evidence
             /\ pending' = pending \cup r.broadcast
             /\ panicked' = r.panic
             /\ lastOp' = <<OpRecord("claim", txErrors, r.panic, r.evidence,
                                     r.broadcast, unverified)>>
    /\ ranOps' = Append(ranOps, "claim")
    /\ UNCHANGED <<chainVars, calls, vcall, unverified, verified>>

RunDeleteExpiredUnverifiedProofs ==
    /\ ~panicked
    /\ Len(ranOps) < MaxOps
    /\ LET r == DeleteExpiredUnverifiedProofs(Context(height))
       IN  /\ unverified' = r.store
           /\ panicked' = r.panic
           /\ lastOp' = <<OpRecord("sweep", {}, r.panic, evidence, {}, r.store)>>
    /\ ranOps' = Append(ranOps, "sweep")
    /\ UNCHANGED <<chainVars, calls, vcall, evidence, verified, pending>>

\* the block is committed; governance may remove a chain from the next height on
CommitBlock ==
    /\ ~panicked
    /\ height < MaxHeight
    /\ height' = height + 1
    /\ blockHash' = [h \in 0..(height + 1) |-> <<"B", h>>]
    /\ \E removed \in {{}, {"c2"}} :
         supported' = [h \in Heights |-> IF h > height THEN supported[h] \ removed
                                         ELSE supported[h]]
    /\ ranOps' = <<>>
    /\ lastOp' = <<>>
    /\ UNCHANGED <<sha3, params, calls, vcall, evidence, unverified, verified, pending, panicked>>

Init ==
    /\ sha3 \in [Payloads -> FewDigests]
    /\ height = 1
    /\ blockHash = [h \in 0..1 |-> <<"B", h>>]
    /\ \E p \in ParamSets :
         /\ p.sessionFrequency = 1
         /\ p.proofWaitingPeriod = 2
         /\ params = [h \in Heights |-> p]
    /\ supported = [h \in Heights |-> Chains]
    /\ calls = <<>>
    /\ vcall = <<>>
    /\ InitNode

Next ==
    \/ AppendRelay
    \/ SubmitProof
    \/ DeliverClaim
    \/ DeliverProof
    \/ RunSendUnverifiedProofs
    \/ RunClaimProofs
    \/ RunDeleteExpiredUnverifiedProofs
    \/ CommitBlock

Spec == Init /\ [][Next]_vars

\* ------------------------------------------------ claims: challenge index

\* the two recorded invocations, when there are two
TwoCalls == Len(calls) = 2

\* C3: the hashed payload contains the block hash and the header hash: two
\* invocations with the same total_relays that differ in the block hash of the
\* proof height, or in the header, hash different payloads.
C3_PayloadBindsBlockHashAndHeader ==
    TwoCalls =>
        ( ( /\ calls[1].totalRelays = calls[2].totalRelays
            /\ \/ calls[1].blockHash # calls[2].blockHash
               \/ calls[1].header # calls[2].header )
          => calls[1].payload # calls[2].payload )

\* the suffix s[i..] as the claim reads it: an unbounded base-16 integer
SuffixSig(s, i) == StripZeros(SubSeq(s, i + 1, Len(s)))

\* the positions i whose suffix value is below total_relays
Qualifying(s, n) == { i \in 0..(HexLen - 1) : n > 0 /\ SigLess(SuffixSig(s, i), ToHex(n)) }

FirstQualifying(s, n) == CHOOSE i \in Qualifying(s, n) : \A j \in Qualifying(s, n) : i <= j

\* C4: given the 16-hex-character prefix s, the function returns the value of
\* the first suffix s[i..] (i = 0..15) below total_relays, and 0 when there is
\* none; so for total_relays >= 1 the result is a leaf index in 0..total_relays-1.
C4_FirstQualifyingSuffix ==
    Len(calls) >= 1 =>
        LET c == calls[1]
            q == Qualifying(c.proofsHash, c.totalRelays)
        IN  /\ ~c.out.panic
            /\ c.out.val = IF q = {} THEN 0
                           ELSE HexValue(SuffixSig(c.proofsHash, FirstQualifying(c.proofsHash, c.totalRelays)))
            /\ c.totalRelays >= 1 => (0 <= c.out.val /\ c.out.val < c.totalRelays)

Validated == vcall # <<>>

Accepted == Validated /\ ~vcall[1].out.panic /\ vcall[1].out.err = None

\* C1: every accepted proof reveals the leaf whose index is the challenge index
\* computed from the stored claim's header and total_relays, with a Merkle
\* branch that folds the leaf's hash to the stored claim's root.
C1_AcceptedProofIsChallengedLeafOfRoot ==
    Accepted =>
        /\ vcall[1].claim.leafNode.index =
              GeneratePseudoRandomProof(Context(height), vcall[1].proof.totalRelays,
                                        vcall[1].proof.header).val
        /\ Fold(LeafNodeHash(LeafHash(vcall[1].claim.leafNode)), vcall[1].claim.merkleProof)
              = vcall[1].proof.root

\* C1's case: a proof of a tree of several leaves is accepted at a non-zero index
C1_Witness ==
    /\ Accepted
    /\ vcall[1].claim.leafNode.index > 0
    /\ Len(vcall[1].claim.merkleProof) > 1

\* what each check alone says of a recorded invocation
IndexFails ==
    vcall[1].claim.leafNode.index #
        GeneratePseudoRandomProof(Context(height), vcall[1].proof.totalRelays,
                                  vcall[1].proof.header).val
MerkleFails ==
    Fold(LeafNodeHash(LeafHash(vcall[1].claim.leafNode)), vcall[1].claim.merkleProof) # vcall[1].proof.root
TokenFails == ~vcall[1].claim.leafNode.tokenOK
SignatureFails == ~vcall[1].claim.leafNode.sigOK

\* C2: the checks run in the order challenge index, Merkle branch, token,
\* client signature; the first failing check alone determines the error, and
\* each check has its own error kind.
C2_FirstFailingCheckDecides ==
    (Validated /\ ~vcall[1].out.panic) =>
        vcall[1].out.err =
            IF IndexFails THEN "InvalidProofs"
            ELSE IF MerkleFails THEN "InvalidMerkleVerify"
            ELSE IF TokenFails THEN "InvalidToken"
            ELSE IF SignatureFails THEN "InvalidSignature"
            ELSE None

\* C2's case: a leaf with a wrong index and its own valid branch (and with an
\* invalid token and signature besides) is rejected with the challenge-index error
C2_Witness ==
    /\ Validated
    /\ ~vcall[1].out.panic
    /\ IndexFails
    /\ ~MerkleFails
    /\ Len(vcall[1].claim.merkleProof) > 0
    /\ TokenFails
    /\ SignatureFails
    /\ vcall[1].out.err = "InvalidProofs"

\* ------------------------------------------------ claims: lifecycle driver

Ran(op) == lastOp # <<>> /\ lastOp[1].op = op

\* C6: a driver operation invoked a second time at the same height, with no
\* block committed and nothing else done in between, broadcasts no transaction
\* and changes neither the evidence store nor the claim store
C6_ReinvocationHasNoEffect ==
    (lastOp # <<>> /\ lastOp[1].rerun) =>
        /\ lastOp[1].broadcast = {}
        /\ lastOp[1].evidenceAfter = lastOp[1].evidenceBefore
        /\ lastOp[1].unverifiedAfter = lastOp[1].unverifiedBefore

\* C7: SendUnverifiedProofs deletes every session in memory whose chain is not
\* supported at the height at which it runs and broadcasts no claim for it
C7_UnsupportedAtDriverHeightIsDropped ==
    Ran("send") =>
        \A header \in DOMAIN lastOp[1].evidenceBefore :
            header.chain \notin lastOp[1].supportedNow =>
                /\ header \notin DOMAIN lastOp[1].evidenceAfter
                /\ \A tx \in lastOp[1].broadcast : tx.msg.header # header

\* C8: SendUnverifiedProofs broadcasts a claim for a session only at heights
\* h >= session_block_height + session_frequency
C8_NoClaimWhileCollecting ==
    Ran("send") =>
        \A tx \in lastOp[1].broadcast :
            lastOp[1].height >= tx.msg.header.sbh + SessionFrequency(Context(lastOp[1].height))

\* C9: immediately after DeleteExpiredUnverifiedProofs runs at height h, the
\* store holds no claim with
\* h >= session_block_height + unverified_proof_expiration * session_frequency
C9_NoClaimOutlivesExpiration ==
    Ran("sweep") =>
        \A k \in DOMAIN lastOp[1].unverifiedAfter :
            lastOp[1].height < k.header.sbh
                + UnverifiedProofExpiration(Context(lastOp[1].height))
                    * SessionFrequency(Context(lastOp[1].height))

\* C10: once the verified record of (self, header) is written and the matching
\* claim deleted, the next run of ClaimProofs leaves no evidence in memory for
\* that header
C10_SettledEvidenceIsDeleted ==
    Ran("claim") =>
        \A header \in DOMAIN lastOp[1].evidenceBefore :
            (/\ KeyFor(Self, header) \in DOMAIN lastOp[1].verifiedBefore
             /\ KeyFor(Self, header) \notin DOMAIN lastOp[1].unverifiedBefore)
                => header \notin DOMAIN lastOp[1].evidenceAfter

\* C11: a per-session failure (no Merkle root, no branch, a broadcast that
\* returns an error) never aborts the driver: SendUnverifiedProofs and
\* ClaimProofs return normally, and SendUnverifiedProofs still broadcasts the
\* claim of every other session that is due one
C11_DriverSkipsFailedSession ==
    (Ran("send") \/ Ran("claim")) =>
        /\ ~lastOp[1].panic
        /\ Ran("send") =>
             \A header \in DOMAIN lastOp[1].evidenceBefore :
                 (/\ header \notin lastOp[1].txErrors
                  /\ KeyFor(Self, header) \notin DOMAIN lastOp[1].unverifiedBefore)
                     => \E tx \in lastOp[1].broadcast : tx.msg.header = header

\* ------------------------------------------------ claims: the KV store

MaxWrites == 3

StoreAddresses == {Addresses[i] : i \in 1..Len(Addresses)}
StoreHeaders == Sessions \cup Headers

\* SetUnverifiedProof is called with a claim of any node; calls logs the write
StoreClaim ==
    /\ Len(calls) < MaxWrites
    /\ \E a \in StoreAddresses, h \in StoreHeaders, n \in 1..2 :
         LET msg == [fromAddress |-> a, header |-> h, totalRelays |-> n, root |-> <<"root", n>>]
         IN  /\ unverified' = SetUnverifiedProof(unverified, msg)
             /\ calls' = Append(calls, [store |-> "unverified", key |-> KeyFor(a, h),
                                        value |-> msg])
    /\ UNCHANGED <<chainVars, vcall, evidence, verified, pending, ranOps, panicked, lastOp>>

\* SetProof is called with a verified proof of any node; calls logs the write
StoreProof ==
    /\ Len(calls) < MaxWrites
    /\ \E a \in StoreAddresses, h \in StoreHeaders, n \in 1..2 :
         LET p == [header |-> h, totalRelays |-> n]
         IN  /\ verified' = SetProof(verified, a, p)
             /\ calls' = Append(calls, [store |-> "verified", key |-> KeyFor(a, h),
                                        value |-> p])
    /\ UNCHANGED <<chainVars, vcall, evidence, unverified, pending, ranOps, panicked, lastOp>>

InitStore ==
    /\ sha3 = [r \in Payloads |-> EmptyObjectDigest]
    /\ InitChain
    /\ params[0] = params[MaxHeight]
    /\ params[0].sessionFrequency = 1
    /\ params[0].proofWaitingPeriod = 1

NextStore == StoreClaim \/ StoreProof

SpecStore == InitStore /\ [][NextStore]_vars

Writes(store, key) == { i \in 1..Len(calls) : calls[i].store = store /\ calls[i].key = key }
LastWritten(store, key) ==
    calls[CHOOSE i \in Writes(store, key) : \A j \in Writes(store, key) : j <= i].value

RECURSIVE CeilLog2From(_, _, _)
CeilLog2From(n, k, pow) == IF pow >= n THEN k ELSE CeilLog2From(n, k + 1, 2 * pow)
CeilLog2(n) == CeilLog2From(n, 0, 1)

\* C13: ValidateProof rejects every proof whose Merkle branch is not
\* ceil(log2(total_relays)) long, total_relays being that of the stored claim
C13_WrongLengthBranchRejected ==
    (/\ vcall # <<>>
     /\ Len(vcall[1].claim.merkleProof) # CeilLog2(vcall[1].proof.totalRelays))
        => (vcall[1].out.panic \/ vcall[1].out.err # None)

\* ------------------------------------------------ claims: frame of ValidateProof

MaxIdLen == 6

NetworkIdentifierLength == 2

\* the characters an identifier is drawn from: digits of both cases and two
\* characters that are not hexadecimal digits
IdChars == {"0", "a", "F", "g", " "}

\* encoding/hex: the value of a hexadecimal digit, 255 for any other character
FromHexChar(c) ==
    CASE c = "0" -> 0
      [] c = "a" -> 10
      [] c = "F" -> 15
      [] OTHER -> 255

\* hex.Decode: pairs of digits from the left, then the odd character left over
RECURSIVE DecodeLoop(_, _)
DecodeLoop(src, dst) ==
    IF Len(src) >= 2
    THEN LET a == FromHexChar(src[1])
             b == FromHexChar(src[2])
         IN  IF a > 15 \/ b > 15 THEN [err |-> "InvalidByteError", bytes |-> dst]
             ELSE DecodeLoop(SubSeq(src, 3, Len(src)), Append(dst, a * 16 + b))
    ELSE IF Len(src) = 1
    THEN IF FromHexChar(src[1]) > 15 THEN [err |-> "InvalidByteError", bytes |-> dst]
         ELSE [err |-> "ErrLength", bytes |-> dst]
    ELSE [err |-> None, bytes |-> dst]

DecodeString(s) == DecodeLoop(s, <<>>)

ValidateNetworkIdentifierNoEmptyCheck(chain) ==
    LET h == DecodeString(chain)
    IN  IF h.err # None THEN "InvalidNetworkIdentifier"
        ELSE IF Len(h.bytes) > NetworkIdentifierLength THEN "InvalidNetworkIdentifier"
        ELSE None

ValidateNetworkIdentifier(chain) ==
    LET h == DecodeString(chain)
    IN  IF h.err # None THEN "InvalidNetworkIdentifier"
        ELSE IF Len(h.bytes) = 0 THEN "InvalidNetworkIdentifier"
        ELSE IF Len(h.bytes) > NetworkIdentifierLength THEN "InvalidNetworkIdentifier"
        ELSE None

IdStrings == UNION { [1..n -> IdChars] : n \in 0..MaxIdLen }

\* ValidateNetworkIdentifier is called on the identifier at hand
ValidateId ==
    /\ Len(vcall) = 1
    /\ vcall' = <<vcall[1], [out |-> ValidateNetworkIdentifier(vcall[1].chain)]>>
    /\ UNCHANGED <<chainVars, calls, nodeVars>>

InitNetworkIdentifier ==
    /\ sha3 = [r \in Payloads |-> EmptyObjectDigest]
    /\ blockHash = [h \in Heights |-> <<"B", h>>]
    /\ \E p \in ParamSets :
         /\ p.sessionFrequency = 1
         /\ p.proofWaitingPeriod = 1
         /\ params = [h \in Heights |-> p]
    /\ supported = [h \in Heights |-> Chains]
    /\ height = MaxHeight
    /\ calls = <<>>
    /\ \E s \in IdStrings : vcall = <<[chain |-> s]>>
    /\ InitNode

SpecNetworkIdentifier == InitNetworkIdentifier /\ [][ValidateId]_vars

IsHexDigit(c) == c \in {"0", "a", "F"}

\* C15: ValidateNetworkIdentifier accepts exactly the strings of hexadecimal
\* digits that decode to 1 or 2 bytes (2 or 4 digits) and rejects every other
\* string with the invalid-network-identifier error
C15_AcceptsOneOrTwoHexBytes ==
    Len(vcall) = 2 =>
        LET s == vcall[1].chain
            wellFormed == /\ \A i \in 1..Len(s) : IsHexDigit(s[i])
                          /\ Len(s) \in {2, 4}
        IN  /\ wellFormed => vcall[2].out = None
            /\ ~wellFormed => vcall[2].out = "InvalidNetworkIdentifier"

\* a two-byte identifier written in digits of both cases was accepted
C15_Witness ==
    /\ Len(vcall) = 2
    /\ vcall[1].chain = <<"0", "a", "F", "0">>
    /\ vcall[2].out = None

\* ------------------------------------------------ claims: totality

\* C16: GeneratePseudoRandomProof returns an index, without aborting, for every
\* 16-digit digest prefix and every total_relays
C16_ChallengeIsTotal ==
    \A i \in 1..Len(calls) : ~calls[i].out.panic

\* ------------------------------------------------ claims: mature claims

\* the height from which a claim of the session may be revealed
MatureHeight(sbh) ==
    sbh + ProofWaitingPeriod(Context(height)) * SessionFrequency(Context(height))

\* the stored claims of the node that are mature at the current height
MatureClaims ==
    { MustUnmarshalBinaryBare(unverified[k], ZeroMsgProof, TRUE).val :
        k \in { x \in DOMAIN unverified : x.address = Self /\ height >= MatureHeight(x.header.sbh) } }

\* C17: GetMatureUnverifiedProofs(address) returns exactly the stored claims of
\* the address with h >= session_block_height + proof_waiting_period *
\* session_frequency, one record per claim, each equal to the claim stored
C17_ExactlyTheMatureClaims ==
    LET r == GetMatureUnverifiedProofs(Context(height), Self)
    IN  /\ ~r.panic
        /\ Len(r.proofs) = Cardinality(MatureClaims)
        /\ { r.proofs[i] : i \in 1..Len(r.proofs) } = MatureClaims

C20_VerifiedClaimEvidenceDeleted ==
    Ran("claim") =>
        \A header \in DOMAIN lastOp[1].evidenceBefore :
            (/\ KeyFor(Self, header) \in DOMAIN lastOp[1].unverifiedBefore
             /\ KeyFor(Self, header) \in DOMAIN lastOp[1].verifiedBefore
             /\ lastOp[1].height >= header.sbh
                   + ProofWaitingPeriod(Context(lastOp[1].height))
                       * SessionFrequency(Context(lastOp[1].height)))
                => /\ header \notin DOMAIN lastOp[1].evidenceAfter
                   /\ \A tx \in lastOp[1].broadcast : tx.header # header

\* ------------------------------------------------ claims: the reveal

\* the claim of self stored for the header when the recorded operation began
ClaimBefore(header) == lastOp[1].unverifiedBefore[KeyFor(Self, header)][2]

\* the header has a mature claim of self and no verified record, and the
\* evidence in memory is the list the claim committed
DueForReveal(header) ==
    /\ KeyFor(Self, header) \in DOMAIN lastOp[1].unverifiedBefore
    /\ KeyFor(Self, header) \notin DOMAIN lastOp[1].verifiedBefore
    /\ header \notin lastOp[1].txErrors
    /\ lastOp[1].height >= header.sbh
          + ProofWaitingPeriod(Context(lastOp[1].height))
              * SessionFrequency(Context(lastOp[1].height))
    /\ ClaimBefore(header).totalRelays = Len(lastOp[1].evidenceBefore[header])
    /\ ClaimBefore(header).root
          = GetMerkleRoot(HashesOf(lastOp[1].evidenceBefore[header])).root

\* C21: for a mature claim with no verified record whose evidence is the
\* committed list, ClaimProofs broadcasts a ProofMessage carrying the leaf at
\* the required index and its branch in the tree of that list, and the proof
\* passes the index check and the Merkle check of ValidateProof
C21_RevealOfCommittedEvidence ==
    Ran("claim") =>
        \A header \in DOMAIN lastOp[1].evidenceBefore :
            DueForReveal(header) =>
                LET leaves == lastOp[1].evidenceBefore[header]
                    req == GeneratePseudoRandomProof(Context(lastOp[1].height),
                                                     ClaimBefore(header).totalRelays, header)
                IN  /\ ~req.panic
                    /\ \E tx \in lastOp[1].broadcast :
                         /\ tx.kind = "proof"
                         /\ tx.header = header
                         /\ tx.leafNode = leaves[req.val + 1]
                         /\ tx.merkleProof = GetMerkleProof(HashesOf(leaves), req.val).branch
                         /\ VerifyProof(tx.merkleProof, ClaimBefore(header).root,
                                        LeafHash(tx.leafNode))

\* ------------------------------------------------ claims: discarded sessions

\* the sweep just run removed the claim of self for the header
SweptAway(header) ==
    /\ Ran("sweep")
    /\ KeyFor(Self, header) \in DOMAIN lastOp[1].unverifiedBefore
    /\ KeyFor(Self, header) \notin DOMAIN lastOp[1].unverifiedAfter

\* the driver operation just run broadcast a claim or a proof for the header
BroadcastFor(header) ==
    /\ Ran("send") \/ Ran("claim")
    /\ \E tx \in lastOp[1].broadcast :
         IF tx.kind = "claim" THEN tx.msg.header = header ELSE tx.header = header

\* C22: once the expiry sweep has removed a session's claim, no later driver
\* invocation broadcasts a ClaimMessage or a ProofMessage for that session
C22_DiscardedSessionStaysSilent ==
    \A header \in Sessions : [](SweptAway(header) => [](~BroadcastFor(header)))

\* the expiry sweep has removed a claim
C22_Case == \E header \in Sessions : SweptAway(header)

\* ------------------------------------------------ claims: frame of the sweep

\* the claim under the key has outlived unverified_proof_expiration sessions at
\* the height of the recorded operation
Expired(k) ==
    GoDiv(lastOp[1].height - k.header.sbh, SessionFrequency(Context(k.header.sbh)))
        >= UnverifiedProofExpiration(Context(k.header.sbh))

\* C23: DeleteExpiredUnverifiedProofs deletes every claim with
\* (h - session_block_height) / session_frequency >= unverified_proof_expiration
\* and nothing else: the other claims, the verified records and the evidence
\* in memory are as before
C23_SweepDeletesExactlyTheExpired ==
    Ran("sweep") =>
        /\ DOMAIN lastOp[1].unverifiedAfter
              = { k \in DOMAIN lastOp[1].unverifiedBefore : ~Expired(k) }
        /\ \A k \in DOMAIN lastOp[1].unverifiedAfter :
              lastOp[1].unverifiedAfter[k] = lastOp[1].unverifiedBefore[k]
        /\ verified = lastOp[1].verifiedBefore
        /\ evidence = lastOp[1].evidenceBefore

\* ------------------------- SendUnverifiedProofs beside the relay threads

\* SendUnverifiedProofs takes no lock on the evidence (lines 79-98): between
\* any two of its reads of a session a relay thread may append. vcall holds the
\* driver's frame for the session it is at.

\* line 81: the loop yields a session; line 83 reads its TotalRelays
SendRange ==
    /\ ~panicked
    /\ vcall = <<>>
    /\ \E header \in DOMAIN evidence :
         /\ IsPocketSupportedBlockchain(WithBlockHeight(Context(height), header.sbh),
                                        header.chain)
         /\ ~GetUnverfiedProof(Self, header).found
         /\ vcall' = <<[at |-> "root", header |-> header,
                        totalRelays |-> Len(evidence[header])]>>
    /\ UNCHANGED <<chainVars, calls, nodeVars>>

\* line 93: the root is read from the session's tree
SendRoot ==
    /\ ~panicked
    /\ vcall # <<>>
    /\ vcall[1].at = "root"
    /\ LET root == GetMerkleRoot(HashesOf(evidence[vcall[1].header]))
       IN  vcall' = <<[at |-> "tx", header |-> vcall[1].header,
                       totalRelays |-> vcall[1].totalRelays, root |-> root.root]>>
    /\ UNCHANGED <<chainVars, calls, nodeVars>>

\* line 98: the transaction is built from proof.TotalRelays, which is the value
\* the loop copied when the map holds structs and the session's current count
\* when it holds pointers, and from the root
SendTx ==
    /\ ~panicked
    /\ vcall # <<>>
    /\ vcall[1].at = "tx"
    /\ \E totalRelays \in {vcall[1].totalRelays, Len(evidence[vcall[1].header])} :
         pending' = pending \cup {ClaimTx(vcall[1].header, totalRelays, vcall[1].root)}
    /\ vcall' = <<>>
    /\ UNCHANGED <<chainVars, calls, evidence, unverified, verified, ranOps, panicked, lastOp>>

NextInterleaved == AppendRelay \/ SendRange \/ SendRoot \/ SendTx

SpecInterleaved == Init /\ [][NextInterleaved]_vars

\* C24: every ClaimMessage broadcast by SendUnverifiedProofs carries as its
\* root the Merkle root of exactly the first total_relays leaves of the
\* session's evidence
C24_CountAndRootFromOneState ==
    \A tx \in pending :
        tx.kind = "claim" =>
            /\ tx.msg.totalRelays <= Len(evidence[tx.msg.header])
            /\ tx.msg.root
                 = GetMerkleRoot(HashesOf(SubSeq(evidence[tx.msg.header], 1,
                                                 tx.msg.totalRelays))).root

\* ---------------------------------------------------------- pagination

MaxItems == 6
MaxPage == 4
MaxLimit == 3

DefaultLimit == 30

\* checkPagination
checkPagination(page, limit) ==
    [page  |-> IF page <= 0 THEN 1 ELSE page,
     limit |-> IF limit <= 0 THEN DefaultLimit ELSE limit]

\* util.Paginate: the bounds of the page, (-1, -1) when there is no such page
Paginate(numObjs, page, limit, defLimit) ==
    IF page = 0 THEN [start |-> -1, end |-> -1]
    ELSE LET lim == IF limit = 0 THEN defLimit ELSE limit
             start == (page - 1) * lim
             end == IF lim + start >= numObjs THEN numObjs ELSE lim + start
         IN  IF start >= numObjs THEN [start |-> -1, end |-> -1]
             ELSE [start |-> start, end |-> end]

\* math.Ceil(float64(a) / float64(b)) for a >= 0, b > 0
Ceil(a, b) == (a + b - 1) \div b

\* the zero value Page{}
EmptyPage == [result |-> <<>>, total |-> 0, page |-> 0]

\* paginate, on a slice
paginate(page, limit, items, max) ==
    LET l == Len(items)
        b == Paginate(l, page, limit, max)
    IN  IF b.start = -1 /\ b.end = -1 THEN [err |-> None, res |-> EmptyPage]
        ELSE IF b.start < 0 \/ b.end < 0 THEN [err |-> "invalid bounds", res |-> EmptyPage]
        ELSE LET totalPages == Ceil(l, b.end - b.start)
             IN  [err |-> None,
                  res |-> [result |-> SubSeq(items, b.start + 1, b.end),
                           total  |-> IF totalPages < 1 THEN 1 ELSE totalPages,
                           page   |-> page]]

\* a query handler checks the page and the limit it was given, then paginates
PaginateQuery ==
    /\ Len(vcall) = 1
    /\ LET checked == checkPagination(vcall[1].page, vcall[1].limit)
       IN  vcall' = <<vcall[1],
                      [checked |-> checked,
                       out |-> paginate(checked.page, checked.limit, vcall[1].items, 1000)]>>
    /\ UNCHANGED <<chainVars, calls, nodeVars>>

InitPaginate ==
    /\ sha3 = [r \in Payloads |-> EmptyObjectDigest]
    /\ blockHash = [h \in Heights |-> <<"B", h>>]
    /\ \E p \in ParamSets :
         /\ p.sessionFrequency = 1
         /\ p.proofWaitingPeriod = 1
         /\ params = [h \in Heights |-> p]
    /\ supported = [h \in Heights |-> Chains]
    /\ height = MaxHeight
    /\ calls = <<>>
    /\ \E l \in 0..MaxItems, page \in (-1)..MaxPage, limit \in (-1)..MaxLimit :
         vcall = <<[page |-> page, limit |-> limit, items |-> [i \in 1..l |-> <<"item", i>>]]>>
    /\ InitNode

SpecPaginate == InitPaginate /\ [][PaginateQuery]_vars

Min(a, b) == IF a <= b THEN a ELSE b

\* C25: checkPagination replaces page <= 0 by 1 and limit <= 0 by 30; for
\* page >= 1 and limit >= 1 with (page - 1) * limit < l, paginate returns the
\* items at positions (page - 1) * limit up to min(page * limit, l), the page
\* it was given and total_pages = ceil(l / limit)
C25_PageOfItemsAndTotal ==
    Len(vcall) = 2 =>
        LET page == vcall[1].page
            limit == vcall[1].limit
            items == vcall[1].items
            l == Len(items)
        IN  /\ vcall[2].checked.page = (IF page <= 0 THEN 1 ELSE page)
            /\ vcall[2].checked.limit = (IF limit <= 0 THEN 30 ELSE limit)
            /\ (page >= 1 /\ limit >= 1 /\ (page - 1) * limit < l) =>
                 /\ vcall[2].out.err = None
                 /\ vcall[2].out.res.result
                      = SubSeq(items, (page - 1) * limit + 1, Min(page * limit, l))
                 /\ vcall[2].out.res.page = page
                 /\ vcall[2].out.res.total = Ceil(l, limit)

\* ------------------------------------------------ claims: implicit

\* C26: when ClaimProofs runs, the evidence list of every session with a stored
\* claim of self has the Merkle root committed in that claim
C26_EvidenceKeepsCommittedRoot ==
    Ran("claim") =>
        \A header \in DOMAIN lastOp[1].evidenceBefore :
            KeyFor(Self, header) \in DOMAIN lastOp[1].unverifiedBefore =>
                GetMerkleRoot(HashesOf(lastOp[1].evidenceBefore[header])).root
                    = ClaimBefore(header).root

\* C27: SendUnverifiedProofs broadcasts no ClaimMessage for a session whose
\* verified record of (self, header) exists
C27_NoClaimForSettledSession ==
    Ran("send") =>
        \A tx \in lastOp[1].broadcast :
            KeyFor(Self, tx.msg.header) \notin DOMAIN lastOp[1].verifiedBefore

====
